---- MODULE Spec2Model ----
(***************************************************************************)
(* Model of server.js: the equipment-record API (create / update / delete  *)
(* / list), the image upload helper, the local-file cleanup, the URL       *)
(* reconciliation job (POST /api/fix-imagenes) and the start-up sequence.  *)
(*                                                                         *)
(* Strings are sequences of tokens.  A token never contains "/" or ","     *)
(* unless it is exactly that character, so that the substring tests of the *)
(* code (includes('/uploads/'), startsWith('http'), includes(',')) are     *)
(* subsequence tests on tokens.  undefined is the one-token string UNDEF.  *)
(***************************************************************************)
EXTENDS Integers, Sequences, FiniteSets, TLC

\* ---------------------------------------------------------------- bounds
MaxClock == 2
MaxRows == 2
MaxReqs == 3

\* ------------------------------------------------------------- JS values
UNDEF == <<"undefined">>
NoNum == 0 - 1

Truthy(s) == s # UNDEF /\ s # <<>>

TruthyNum(n) == n # NoNum /\ n # 0

includes(s, t) ==
    \E i \in 0..(Len(s) - Len(t)) : SubSeq(s, i + 1, i + Len(t)) = t

startsWith(s, t) == Len(s) >= Len(t) /\ SubSeq(s, 1, Len(t)) = t

Range(f) == {f[i] : i \in DOMAIN f}

\* ------------------------------------------------------ string constants
UploadsMarker == <<"/", "uploads", "/">>
SupabaseMarker == <<"supabase.co">>
HttpPrefix == <<"http">>
DataImagePrefix == <<"data:image">>
UpdateSuffix == <<"-update">>

\* process.env.SUPABASE_URL of a hosted project
supabaseUrl == <<"http", "s:", "/", "/", "proj.", "supabase.co">>

Letters == {"png", "jpeg"}

\* ------------------------------------------------------------ image codec
\* /^data:image\/([a-zA-Z]*);base64,(.*)$/ on a token string: the index of the
\* ";base64" token when the string matches, 0 when it does not.
RECURSIVE LettersEnd(_, _)
LettersEnd(s, i) ==
    IF i <= Len(s) /\ s[i] \in Letters THEN LettersEnd(s, i + 1) ELSE i

regexMatch(s) ==
    IF Len(s) >= 2 /\ s[1] = "data:image" /\ s[2] = "/"
    THEN LET j == LettersEnd(s, 3)
         IN IF /\ j + 1 <= Len(s)
               /\ s[j] = ";base64"
               /\ s[j + 1] = ","
               /\ \A k \in (j + 2)..Len(s) : s[k] # "\n"
            THEN j
            ELSE 0
    ELSE 0

\* Buffer.from(imageData, 'base64'): the bytes of each payload token
B64Bytes(tok) ==
    CASE tok = "QQ==" -> <<65>>
      [] tok = "QUI=" -> <<65, 66>>
      [] OTHER -> <<>>

RECURSIVE bufferFrom(_)
bufferFrom(p) ==
    IF p = <<>> THEN <<>> ELSE B64Bytes(Head(p)) \o bufferFrom(Tail(p))

\* ------------------------------------------------------------- blob store
\* supabase.storage.from('imagenes-soporte').getPublicUrl(path).data.publicUrl
getPublicUrl(path) ==
    supabaseUrl \o <<"/", "storage", "/", "v1", "/", "object", "/", "public",
                     "/", "imagenes-soporte", "/">> \o path

\* `${Date.now()}-${imageIndex}.${imageType}` under `${equipoId}/`
filePathOf(equipoId, ts, imageIndex, imageType) ==
    equipoId \o <<"/", ToString(ts), "-", ToString(imageIndex), ".">> \o imageType

\* matches[1] and matches[2] of a string that matches at j
imageTypeOf(s, j) == SubSeq(s, 3, j - 1)

imageDataOf(s, j) == SubSeq(s, j + 2, Len(s))

NullResult(bk) ==
    [ok |-> FALSE, filename |-> UNDEF, url |-> UNDEF, size |-> 0, bucket |-> bk]

\* saveImageToSupabase with upsert: true, which replaces the object of a taken key
saveImageToSupabase_Upsert(base64Data, equipoId, imageIndex, bk, ts, netOk) ==
    IF ~Truthy(base64Data) \/ ~includes(base64Data, <<",">>)
    THEN NullResult(bk)
    ELSE LET j == regexMatch(base64Data)
         IN IF j = 0
            THEN NullResult(bk)
            ELSE LET imageType == imageTypeOf(base64Data, j)
                     buffer == bufferFrom(imageDataOf(base64Data, j))
                     filePath == filePathOf(equipoId, ts, imageIndex, imageType)
                 IN IF ~netOk
                    THEN NullResult(bk)
                    ELSE [ok |-> TRUE,
                          filename |-> filePath,
                          url |-> getPublicUrl(filePath),
                          size |-> Len(buffer),
                          bucket |-> (filePath :> buffer) @@ bk]

\* saveImageToSupabase: bk is the bucket before the call, ts is Date.now(),
\* netOk is FALSE when the storage service answers the upload with an error.
\* upsert: false makes the upload fail when the key is already in the bucket.
saveImageToSupabase(base64Data, equipoId, imageIndex, bk, ts, netOk) ==
    IF ~Truthy(base64Data) \/ ~includes(base64Data, <<",">>)
    THEN NullResult(bk)
    ELSE LET j == regexMatch(base64Data)
         IN IF j = 0
            THEN NullResult(bk)
            ELSE LET imageType == imageTypeOf(base64Data, j)
                     buffer == bufferFrom(imageDataOf(base64Data, j))
                     filePath == filePathOf(equipoId, ts, imageIndex, imageType)
                 IN IF filePath \in DOMAIN bk \/ ~netOk
                    THEN NullResult(bk)
                    ELSE [ok |-> TRUE,
                          filename |-> filePath,
                          url |-> getPublicUrl(filePath),
                          size |-> Len(buffer),
                          bucket |-> (filePath :> buffer) @@ bk]

\* the storage keys saveImageToSupabase builds for the images of one request
\* (those of the indices con, which the handler hands to it, that reach the
\* upload call), under namespace equipoId at time ts
clavesGeneradas(imagenes, equipoId, ts, con) ==
    {filePathOf(equipoId, ts, i, imageTypeOf(imagenes[i].base64,
                                             regexMatch(imagenes[i].base64))) :
        i \in {k \in 1..Len(imagenes) :
                  /\ k \in con
                  /\ includes(imagenes[k].base64, <<",">>)
                  /\ regexMatch(imagenes[k].base64) # 0}}

\* deleteImageLocally with the test for a remote filename inverted
deleteImageLocally_Invertido(filename, files, bad) ==
    IF ~startsWith(filename, HttpPrefix)
    THEN files
    ELSE IF filename \in files /\ filename \notin bad
         THEN files \ {filename}
         ELSE files

\* deleteImageLocally: the local files left after the call; an unlinkSync of a
\* file in bad throws and is swallowed by the catch.
deleteImageLocally(filename, files, bad) ==
    IF startsWith(filename, HttpPrefix)
    THEN files
    ELSE IF filename \in files /\ filename \notin bad
         THEN files \ {filename}
         ELSE files

\* imagen.title || `Imagen ${i + 1}`
titleOf(imagen, i) ==
    IF Truthy(imagen.title) THEN imagen.title ELSE <<"Imagen ", ToString(i)>>

\* a stored image descriptor
Descriptor(title, filename, url, size, fecha_subida) ==
    [title |-> title, filename |-> filename, url |-> url, size |-> size,
     fecha_subida |-> fecha_subida, url_anterior |-> UNDEF,
     corregida_el |-> NoNum]

\* ------------------------------------------------------------------ state
VARIABLES
    phase,          \* "boot", "listening" (app.listen was called) or "exited"
    dbInitialized,  \* the readiness flag
    tabla,          \* the rows of table computadores
    nextId,         \* the SERIAL sequence of column id
    bucket,         \* storage bucket imagenes-soporte: key -> bytes
    disk,           \* the files under UPLOADS_DIR, by relative path
    now,            \* Date.now()
    fix,            \* the running POST /api/fix-imagenes handler
    req,            \* the last request received
    res,            \* the last response sent
    served,         \* the number of requests received
    generated,      \* the storage keys generated so far, by the handler that did
    hist            \* history of reconciliation runs

vars == <<phase, dbInitialized, tabla, nextId, bucket, disk, now, fix, req, res,
          served, generated, hist>>

EmptyBucket == [k \in {} |-> <<>>]

\* ------------------------------------------------------ record repository
Estados == {<<"operativo">>, <<"mantenimiento">>, <<"dañado">>}
WindowsUpdates == {<<"si">>, <<"no">>}
RequiredFields ==
    {"equipo_id", "serial_number", "responsable", "cargo", "estado", "windows_update"}

Row(id, body, imagenes, fecha_actualizacion) ==
    [id |-> id, equipo_id |-> body.equipo_id, serial_number |-> body.serial_number,
     responsable |-> body.responsable, cargo |-> body.cargo, estado |-> body.estado,
     windows_update |-> body.windows_update, imagenes |-> imagenes,
     fecha_actualizacion |-> fecha_actualizacion]

\* the constraints of the table, in the order the store checks them:
\* NOT NULL (23502), CHECK (23514), UNIQUE equipo_id (23505)
constraintError(body, others) ==
    IF \E f \in RequiredFields : body[f] = UNDEF THEN "23502"
    ELSE IF body.estado \notin Estados \/ body.windows_update \notin WindowsUpdates
    THEN "23514"
    ELSE IF \E r \in others : r.equipo_id = body.equipo_id THEN "23505"
    ELSE ""

\* handleSupabaseError without its branch for code 23505
handleSupabaseError_Sin23505(code) ==
    IF code = "23514" THEN [status |-> 400, error |-> "Valor no válido", code |-> code]
    ELSE IF code = "23502" THEN [status |-> 400, error |-> "Campo requerido faltante", code |-> code]
    ELSE [status |-> 500, error |-> "Error interno del servidor",
          code |-> IF code = "" THEN "SUPABASE_ERROR" ELSE code]

\* handleSupabaseError: the status, message and code of the response
handleSupabaseError(code) ==
    IF code = "23505" THEN [status |-> 400, error |-> "El ID del equipo ya existe", code |-> code]
    ELSE IF code = "23514" THEN [status |-> 400, error |-> "Valor no válido", code |-> code]
    ELSE IF code = "23502" THEN [status |-> 400, error |-> "Campo requerido faltante", code |-> code]
    ELSE [status |-> 500, error |-> "Error interno del servidor",
          code |-> IF code = "" THEN "SUPABASE_ERROR" ELSE code]

Response(op, status, error, code, guardadas, data) ==
    [op |-> op, status |-> status, error |-> error, code |-> code,
     imagenes_guardadas |-> guardadas, data |-> data]

Request(op, id, body, env) ==
    [op |-> op, id |-> id, body |-> body, env |-> env]

\* checkDatabase, when the flag is false
Unavailable(op) ==
    Response(op, 500, "Base de datos no disponible", "", 0, <<>>)

\* ------------------------------------------------- reconciliation history
Urls(t) == {<<r.id, [i \in 1..Len(r.imagenes) |-> r.imagenes[i].url]>> : r \in t}

NoHist == [cur |-> "none", prev |-> FALSE, urls |-> {}, second |-> FALSE, urls1 |-> {}]

\* a record-changing request ends the quiet period between two runs
Disturbed ==
    [cur |-> IF hist.cur = "none" THEN "none" ELSE "spoiled",
     prev |-> FALSE, urls |-> {}, second |-> FALSE, urls1 |-> {}]

\* imagen.base64 is truthy (create), is truthy and starts with data:image (update)
tieneBase64(imagen) == Truthy(imagen.base64)

tieneDataImage(imagen) ==
    Truthy(imagen.base64) /\ startsWith(imagen.base64, DataImagePrefix)

\* supabase.from('computadores').insert([...]).select().single()
dbInsert(t, id, body, imagenes) ==
    LET error == constraintError(body, t)
    IN [error |-> error,
        tabla |-> IF error = "" THEN t \cup {Row(id, body, imagenes, 0)} ELSE t]

\* an update that inserts the row when no row matches id
dbUpdate_Upsert(t, id, body, imagenes, ts) ==
    LET viejo == {r \in t : r.id = id}
        error == constraintError(body, t \ viejo)
    IN [error |-> error,
        data |-> IF error = "" THEN {Row(id, body, imagenes, ts)} ELSE {},
        tabla |-> IF error = ""
                  THEN (t \ viejo) \cup {Row(id, body, imagenes, ts)}
                  ELSE t]

\* supabase.from('computadores').update({...}).eq('id', id).select(): no row
\* matching id is no error and an empty data
dbUpdate(t, id, body, imagenes, ts) ==
    LET viejo == {r \in t : r.id = id}
        error == IF viejo = {} THEN "" ELSE constraintError(body, t \ viejo)
    IN [error |-> error,
        data |-> IF error = "" THEN viejo ELSE {},
        tabla |-> IF error = "" /\ viejo # {}
                  THEN (t \ viejo) \cup {Row(id, body, imagenes, ts)}
                  ELSE t]

\* ------------------------------------------------------------ start-up
\* startServer that listens although the store check failed
StartServer_SiempreEscucha(storeOk) ==
    /\ phase = "boot"
    /\ dbInitialized' = (dbInitialized \/ storeOk)
    /\ phase' = "listening"
    /\ UNCHANGED <<tabla, nextId, bucket, disk, now, fix, req, res, served, generated,
                   hist>>

\* startServer: await initializeSupabase(), then app.listen; a failed store
\* check ends the process (process.exit(1)) before listen is called.
StartServer(storeOk) ==
    /\ phase = "boot"
    /\ IF storeOk
       THEN /\ dbInitialized' = TRUE
            /\ phase' = "listening"
       ELSE /\ dbInitialized' = dbInitialized
            /\ phase' = "exited"
    /\ UNCHANGED <<tabla, nextId, bucket, disk, now, fix, req, res, served, generated,
                   hist>>

Tick ==
    /\ now < MaxClock
    /\ now' = now + 1
    /\ UNCHANGED <<phase, dbInitialized, tabla, nextId, bucket, disk, fix, req, res,
                   served, generated, hist>>

\* --------------------------------------------- POST /api/computadores
\* the upload loop leaving at the first image that fails
RECURSIVE crearLoop_Abort(_, _, _, _, _, _, _)
crearLoop_Abort(imagenes, i, equipo_id, bk, acc, ts, netFail) ==
    IF i > Len(imagenes)
    THEN [bucket |-> bk, imagenes |-> acc]
    ELSE LET imagen == imagenes[i]
         IN IF tieneBase64(imagen)
            THEN LET resultado ==
                         saveImageToSupabase(imagen.base64, equipo_id, i, bk, ts,
                                             i \notin netFail)
                 IN IF resultado.ok
                    THEN crearLoop_Abort(imagenes, i + 1, equipo_id, resultado.bucket,
                                         Append(acc, Descriptor(titleOf(imagen, i),
                                                                resultado.filename,
                                                                resultado.url,
                                                                resultado.size, ts)),
                                         ts, netFail)
                    ELSE [bucket |-> bk, imagenes |-> acc]
            ELSE crearLoop_Abort(imagenes, i + 1, equipo_id, bk, acc, ts, netFail)

\* the upload loop: images i..n of the request, acc the descriptors saved so far
RECURSIVE crearLoop(_, _, _, _, _, _, _)
crearLoop(imagenes, i, equipo_id, bk, acc, ts, netFail) ==
    IF i > Len(imagenes)
    THEN [bucket |-> bk, imagenes |-> acc]
    ELSE LET imagen == imagenes[i]
         IN IF tieneBase64(imagen)
            THEN LET resultado ==
                         saveImageToSupabase(imagen.base64, equipo_id, i, bk, ts,
                                             i \notin netFail)
                 IN IF resultado.ok
                    THEN crearLoop(imagenes, i + 1, equipo_id, resultado.bucket,
                                   Append(acc, Descriptor(titleOf(imagen, i),
                                                          resultado.filename,
                                                          resultado.url,
                                                          resultado.size, ts)),
                                   ts, netFail)
                    ELSE crearLoop(imagenes, i + 1, equipo_id, bk, acc, ts, netFail)
            ELSE crearLoop(imagenes, i + 1, equipo_id, bk, acc, ts, netFail)

\* the required-field check without windows_update
camposFaltantes_SinWindows(body) ==
    \E f \in RequiredFields \ {"windows_update"} : ~Truthy(body[f])

\* the required-field check of the handler
camposFaltantes(body) == \E f \in RequiredFields : ~Truthy(body[f])

Crear(body, netFail) ==
    /\ phase = "listening"
    /\ nextId <= MaxRows
    /\ served < MaxReqs
    /\ served' = served + 1
    /\ req' = Request("crear", 0, body, netFail)
    /\ IF ~dbInitialized
       THEN /\ res' = Unavailable("crear")
            /\ UNCHANGED <<tabla, nextId, bucket, generated, hist>>
       ELSE IF camposFaltantes(body)
       THEN /\ res' = Response("crear", 400, "Campos requeridos faltantes", "", 0, <<>>)
            /\ UNCHANGED <<tabla, nextId, bucket, generated, hist>>
       ELSE LET subidas == crearLoop(body.imagenes, 1, body.equipo_id, bucket,
                                     <<>>, now, netFail)
                insert == dbInsert(tabla, nextId, body, subidas.imagenes)
            IN /\ bucket' = subidas.bucket
               /\ generated' = [generated EXCEPT !.crear =
                                    @ \cup clavesGeneradas(body.imagenes, body.equipo_id,
                                                          now,
                                                          {k \in 1..Len(body.imagenes) :
                                                             tieneBase64(body.imagenes[k])})]
               /\ nextId' = nextId + 1
               /\ hist' = Disturbed
               /\ tabla' = insert.tabla
               /\ IF insert.error = ""
                  THEN res' = Response("crear", 201, "", "", Len(subidas.imagenes), <<>>)
                  ELSE res' = LET e == handleSupabaseError(insert.error)
                              IN Response("crear", e.status, e.error, e.code, 0, <<>>)
    /\ UNCHANGED <<phase, dbInitialized, disk, now, fix>>

\* ------------------------------------------ PUT /api/computadores/:id
\* the descriptor of a remote image keeping the url sent
descriptorRemoto_UrlEnviada(imagen, i, ts) ==
    Descriptor(titleOf(imagen, i), imagen.filename, imagen.url,
               IF TruthyNum(imagen.size) THEN imagen.size ELSE 0,
               IF TruthyNum(imagen.fecha_subida) THEN imagen.fecha_subida ELSE ts)

\* the descriptor kept for an image that comes with a filename and no new data
descriptorRemoto(imagen, i, ts) ==
    Descriptor(titleOf(imagen, i), imagen.filename, imagen.filename,
               IF TruthyNum(imagen.size) THEN imagen.size ELSE 0,
               IF TruthyNum(imagen.fecha_subida) THEN imagen.fecha_subida ELSE ts)

descriptorLocal(imagen, i, ts) ==
    Descriptor(titleOf(imagen, i), imagen.filename, imagen.url,
               IF TruthyNum(imagen.size) THEN imagen.size ELSE 0,
               IF TruthyNum(imagen.fecha_subida) THEN imagen.fecha_subida ELSE ts)

RECURSIVE actualizarLoop(_, _, _, _, _, _, _, _)
actualizarLoop(imagenes, i, equipo_id, bk, acc, ts, netFail, files) ==
    IF i > Len(imagenes)
    THEN [bucket |-> bk, imagenes |-> acc]
    ELSE LET imagen == imagenes[i]
         IN IF tieneDataImage(imagen)
            THEN LET resultado ==
                         saveImageToSupabase(imagen.base64, equipo_id \o UpdateSuffix,
                                             i, bk, ts, i \notin netFail)
                 IN IF resultado.ok
                    THEN actualizarLoop(imagenes, i + 1, equipo_id, resultado.bucket,
                                        Append(acc, Descriptor(titleOf(imagen, i),
                                                               resultado.filename,
                                                               resultado.url,
                                                               resultado.size, ts)),
                                        ts, netFail, files)
                    ELSE actualizarLoop(imagenes, i + 1, equipo_id, bk, acc, ts,
                                        netFail, files)
            ELSE IF Truthy(imagen.filename)
            THEN IF startsWith(imagen.filename, HttpPrefix)
                 THEN actualizarLoop(imagenes, i + 1, equipo_id, bk,
                                     Append(acc, descriptorRemoto(imagen, i, ts)),
                                     ts, netFail, files)
                 ELSE IF imagen.filename \in files
                 THEN actualizarLoop(imagenes, i + 1, equipo_id, bk,
                                     Append(acc, descriptorLocal(imagen, i, ts)),
                                     ts, netFail, files)
                 ELSE actualizarLoop(imagenes, i + 1, equipo_id, bk, acc, ts,
                                     netFail, files)
            ELSE actualizarLoop(imagenes, i + 1, equipo_id, bk, acc, ts, netFail, files)

Actualizar(id, body, netFail) ==
    /\ phase = "listening"
    /\ served < MaxReqs
    /\ served' = served + 1
    /\ req' = Request("actualizar", id, body, netFail)
    /\ IF ~dbInitialized
       THEN /\ res' = Unavailable("actualizar")
            /\ UNCHANGED <<tabla, bucket, generated, hist>>
       ELSE LET finales == actualizarLoop(body.imagenes, 1, body.equipo_id, bucket,
                                          <<>>, now, netFail, disk)
                update == dbUpdate(tabla, id, body, finales.imagenes, now)
            IN /\ bucket' = finales.bucket
               /\ generated' = [generated EXCEPT !.actualizar =
                                    @ \cup clavesGeneradas(body.imagenes,
                                                          body.equipo_id \o UpdateSuffix,
                                                          now,
                                                          {k \in 1..Len(body.imagenes) :
                                                             tieneDataImage(body.imagenes[k])})]
               /\ hist' = Disturbed
               /\ tabla' = update.tabla
               /\ IF update.error # ""
                  THEN res' = LET e == handleSupabaseError(update.error)
                              IN Response("actualizar", e.status, e.error, e.code, 0, <<>>)
                  ELSE IF update.data = {}
                  THEN res' = Response("actualizar", 404, "Registro no encontrado",
                                       "", 0, <<>>)
                  ELSE res' = Response("actualizar", 200, "", "",
                                       Len(finales.imagenes), <<>>)
    /\ UNCHANGED <<phase, dbInitialized, nextId, disk, now, fix>>

\* --------------------------------------- DELETE /api/computadores/:id
RECURSIVE borrarLocales(_, _, _)
borrarLocales(imagenes, files, bad) ==
    IF imagenes = <<>>
    THEN files
    ELSE LET imagen == Head(imagenes)
         IN borrarLocales(Tail(imagenes),
                          IF Truthy(imagen.filename)
                          THEN deleteImageLocally(imagen.filename, files, bad)
                          ELSE files,
                          bad)

Eliminar(id, bad) ==
    /\ phase = "listening"
    /\ served < MaxReqs
    /\ served' = served + 1
    /\ req' = Request("eliminar", id, <<>>, [bad |-> bad, files |-> disk])
    /\ IF ~dbInitialized
       THEN /\ res' = Unavailable("eliminar")
            /\ UNCHANGED <<tabla, disk, hist>>
       ELSE LET computador == {r \in tabla : r.id = id}
            IN /\ hist' = Disturbed
               /\ IF computador = {}
                  THEN /\ res' = Response("eliminar", 404, "Registro no encontrado",
                                          "", 0, <<>>)
                       /\ UNCHANGED <<tabla, disk>>
                  ELSE /\ tabla' = tabla \ computador
                       /\ disk' = borrarLocales((CHOOSE r \in computador : TRUE).imagenes,
                                                disk, bad)
                       /\ res' = Response("eliminar", 200, "", "", 0, <<>>)
    /\ UNCHANGED <<phase, dbInitialized, nextId, bucket, now, fix, generated>>

\* ------------------------------------------------ GET /api/computadores
\* the image sequence returned for one row
\* the image processing of the list without the filename: imagen.url of a
\* remote image
RECURSIVE imagenesProc_SinFilename(_, _)
imagenesProc_SinFilename(imagenes, files) ==
    IF imagenes = <<>>
    THEN <<>>
    ELSE LET imagen == Head(imagenes)
             rest == imagenesProc_SinFilename(Tail(imagenes), files)
         IN IF Truthy(imagen.url) /\ includes(imagen.url, SupabaseMarker)
            THEN <<imagen>> \o rest
            ELSE IF Truthy(imagen.filename) /\ ~startsWith(imagen.filename, HttpPrefix)
            THEN IF imagen.filename \in files THEN <<imagen>> \o rest ELSE rest
            ELSE <<imagen>> \o rest

RECURSIVE imagenesProc(_, _)
imagenesProc(imagenes, files) ==
    IF imagenes = <<>>
    THEN <<>>
    ELSE LET imagen == Head(imagenes)
             rest == imagenesProc(Tail(imagenes), files)
         IN IF Truthy(imagen.url) /\ includes(imagen.url, SupabaseMarker)
            THEN <<[imagen EXCEPT !.filename = imagen.url]>> \o rest
            ELSE IF Truthy(imagen.filename) /\ ~startsWith(imagen.filename, HttpPrefix)
            THEN IF imagen.filename \in files THEN <<imagen>> \o rest ELSE rest
            ELSE <<imagen>> \o rest

Listar ==
    /\ phase = "listening"
    /\ served < MaxReqs
    /\ served' = served + 1
    /\ req' = Request("listar", 0, <<>>, {})
    /\ res' = IF ~dbInitialized
              THEN Unavailable("listar")
              ELSE Response("listar", 200, "", "", 0,
                            {<<r.id, imagenesProc(r.imagenes, disk)>> : r \in tabla})
    /\ UNCHANGED <<phase, dbInitialized, tabla, nextId, bucket, disk, now, fix,
                   generated, hist>>

\* ------------------------------- GET /api/estadisticas, /api/export/excel
RECURSIVE SumImagenes(_)
SumImagenes(t) ==
    IF t = {}
    THEN 0
    ELSE LET r == CHOOSE x \in t : TRUE
         IN Len(r.imagenes) + SumImagenes(t \ {r})

Estadisticas ==
    /\ phase = "listening"
    /\ served < MaxReqs
    /\ served' = served + 1
    /\ req' = Request("estadisticas", 0, <<>>, {})
    /\ res' = IF ~dbInitialized
              THEN Unavailable("estadisticas")
              ELSE Response("estadisticas", 200, "", "", 0,
                            [total |-> Cardinality(tabla),
                             con_imagenes |-> Cardinality({r \in tabla : Len(r.imagenes) > 0}),
                             total_imagenes |-> SumImagenes(tabla)])
    /\ UNCHANGED <<phase, dbInitialized, tabla, nextId, bucket, disk, now, fix,
                   generated, hist>>

Exportar ==
    /\ phase = "listening"
    /\ served < MaxReqs
    /\ served' = served + 1
    /\ req' = Request("exportar", 0, <<>>, {})
    /\ res' = IF ~dbInitialized
              THEN Unavailable("exportar")
              ELSE Response("exportar", 200, "", "", 0,
                            {<<r.equipo_id, Len(r.imagenes)>> : r \in tabla})
    /\ UNCHANGED <<phase, dbInitialized, tabla, nextId, bucket, disk, now, fix,
                   generated, hist>>

\* ------------------------------------------- GET /api/imagenes-status
tipoDe(img) ==
    IF Truthy(img.url) /\ includes(img.url, SupabaseMarker) THEN "supabase"
    ELSE IF Truthy(img.url) /\ includes(img.url, UploadsMarker) THEN "koyeb_rota"
    ELSE "local"

\* the counters with the last two branches not exclusive: an image of the
\* deprecated path is counted as local too
RECURSIVE contarTipo_SinElse(_, _)
contarTipo_SinElse(t, tipo) ==
    IF t = {}
    THEN 0
    ELSE LET r == CHOOSE x \in t : TRUE
         IN Cardinality({i \in 1..Len(r.imagenes) :
                            \/ tipoDe(r.imagenes[i]) = tipo
                            \/ tipo = "local" /\ tipoDe(r.imagenes[i]) = "koyeb_rota"})
            + contarTipo_SinElse(t \ {r}, tipo)

RECURSIVE contarTipo(_, _)
contarTipo(t, tipo) ==
    IF t = {}
    THEN 0
    ELSE LET r == CHOOSE x \in t : TRUE
         IN Cardinality({i \in 1..Len(r.imagenes) : tipoDe(r.imagenes[i]) = tipo})
            + contarTipo(t \ {r}, tipo)

ImagenesStatus ==
    /\ phase = "listening"
    /\ served < MaxReqs
    /\ served' = served + 1
    /\ req' = Request("status", 0, <<>>, {})
    /\ res' = IF ~dbInitialized
              THEN Unavailable("status")
              ELSE Response("status", 200, "", "", 0,
                            [total_equipos |-> Cardinality(tabla),
                             total_imagenes |-> SumImagenes(tabla),
                             imagenes_supabase |-> contarTipo(tabla, "supabase"),
                             imagenes_locales |-> contarTipo(tabla, "local"),
                             imagenes_rotas |-> contarTipo(tabla, "koyeb_rota"),
                             necesita_fix |-> contarTipo(tabla, "koyeb_rota") > 0])
    /\ UNCHANGED <<phase, dbInitialized, tabla, nextId, bucket, disk, now, fix,
                   generated, hist>>

\* ---------------------------------------------- POST /api/fix-imagenes
necesitaCorreccion(imagen) ==
    Truthy(imagen.filename) /\ Truthy(imagen.url) /\ includes(imagen.url, UploadsMarker)

corregir(imagen, ts) ==
    IF necesitaCorreccion(imagen)
    THEN [imagen EXCEPT !.url = getPublicUrl(imagen.filename),
                        !.url_anterior = imagen.url,
                        !.corregida_el = ts]
    ELSE imagen

imagenesCorregidas(imagenes, ts) ==
    [i \in 1..Len(imagenes) |-> corregir(imagenes[i], ts)]

necesitaActualizacion(imagenes) ==
    \E i \in 1..Len(imagenes) : necesitaCorreccion(imagenes[i])

\* the rows as the select returns them, by id
RECURSIVE porId(_)
porId(t) ==
    IF t = {}
    THEN <<>>
    ELSE LET r == CHOOSE x \in t : \A y \in t : x.id <= y.id
         IN <<r>> \o porId(t \ {r})

\* escritos and fallidos record the ids whose write was accepted and refused
FixIdle == [pc |-> "idle", computadores |-> <<>>, i |-> 0, actualizados |-> 0,
            totalImagenes |-> 0, escritos |-> {}, fallidos |-> {}]

\* the request arrives and the select of all rows returns
FixLoad ==
    /\ phase = "listening"
    /\ fix.pc = "idle"
    /\ served < MaxReqs
    /\ served' = served + 1
    /\ req' = Request("fix", 0, <<>>, {})
    /\ IF ~dbInitialized
       THEN /\ res' = Unavailable("fix")
            /\ UNCHANGED <<fix, hist>>
       ELSE /\ fix' = [pc |-> "loop", computadores |-> porId(tabla), i |-> 1,
                       actualizados |-> 0, totalImagenes |-> 0,
                       escritos |-> {}, fallidos |-> {}]
            /\ hist' = [hist EXCEPT !.cur = "ok", !.second = FALSE, !.urls1 = {}]
            /\ res' = res
    /\ UNCHANGED <<phase, dbInitialized, tabla, nextId, bucket, disk, now, generated>>

\* the loop iteration leaving the loop at the first write the store refuses
FixStep_Abort(writeOk) ==
    /\ fix.pc = "loop"
    /\ fix.i <= Len(fix.computadores)
    /\ LET computador == fix.computadores[fix.i]
           dirty == necesitaActualizacion(computador.imagenes)
           corregidas == imagenesCorregidas(computador.imagenes, now)
       IN /\ IF dirty /\ writeOk
             THEN tabla' = {IF r.id = computador.id
                            THEN [r EXCEPT !.imagenes = corregidas]
                            ELSE r : r \in tabla}
             ELSE tabla' = tabla
          /\ fix' = [fix EXCEPT !.i = IF dirty /\ ~writeOk
                                      THEN Len(fix.computadores) + 1
                                      ELSE fix.i + 1,
                                !.actualizados =
                                    IF dirty /\ writeOk THEN @ + 1 ELSE @,
                                !.totalImagenes = @ + Len(computador.imagenes),
                                !.escritos =
                                    IF dirty /\ writeOk THEN @ \cup {computador.id} ELSE @,
                                !.fallidos =
                                    IF dirty /\ ~writeOk THEN @ \cup {computador.id} ELSE @]
          /\ hist' = IF dirty /\ ~writeOk /\ hist.cur = "ok"
                     THEN [hist EXCEPT !.cur = "spoiled"]
                     ELSE hist
    /\ UNCHANGED <<phase, dbInitialized, nextId, bucket, disk, now, req, res, served,
                   generated>>

\* one iteration of the loop over the loaded rows; writeOk is FALSE when the
\* store answers the update with an error
FixStep(writeOk) ==
    /\ fix.pc = "loop"
    /\ fix.i <= Len(fix.computadores)
    /\ LET computador == fix.computadores[fix.i]
           dirty == necesitaActualizacion(computador.imagenes)
           corregidas == imagenesCorregidas(computador.imagenes, now)
       IN /\ IF dirty /\ writeOk
             THEN tabla' = {IF r.id = computador.id
                            THEN [r EXCEPT !.imagenes = corregidas]
                            ELSE r : r \in tabla}
             ELSE tabla' = tabla
          /\ fix' = [fix EXCEPT !.i = fix.i + 1,
                                !.actualizados =
                                    IF dirty /\ writeOk THEN @ + 1 ELSE @,
                                !.totalImagenes = @ + Len(computador.imagenes),
                                !.escritos =
                                    IF dirty /\ writeOk THEN @ \cup {computador.id} ELSE @,
                                !.fallidos =
                                    IF dirty /\ ~writeOk THEN @ \cup {computador.id} ELSE @]
          /\ hist' = IF dirty /\ ~writeOk /\ hist.cur = "ok"
                     THEN [hist EXCEPT !.cur = "spoiled"]
                     ELSE hist
    /\ UNCHANGED <<phase, dbInitialized, nextId, bucket, disk, now, req, res, served,
                   generated>>

FixRespond ==
    /\ fix.pc = "loop"
    /\ fix.i > Len(fix.computadores)
    /\ res' = Response("fix", 200, "", "", 0,
                       [equipos_actualizados |-> fix.actualizados,
                        total_imagenes_procesadas |-> fix.totalImagenes])
    /\ fix' = FixIdle
    /\ hist' = [cur |-> "none",
                prev |-> hist.cur = "ok",
                urls |-> IF hist.cur = "ok" THEN Urls(tabla) ELSE {},
                second |-> hist.prev /\ hist.cur = "ok",
                urls1 |-> IF hist.prev /\ hist.cur = "ok" THEN hist.urls ELSE {}]
    /\ UNCHANGED <<phase, dbInitialized, tabla, nextId, bucket, disk, now, req, served,
                   generated>>

\* ----------------------------------------------------------------- inputs
PngUri == <<"data:image", "/", "png", ";base64", ",", "QQ==">>
PngUri2 == <<"data:image", "/", "png", ";base64", ",", "QUI=">>
SvgUri == <<"data:image", "/", "svg+xml", ";base64", ",", "QQ==">>
NoCommaUri == <<"garbage">>

ClientImage(title, base64, filename, url, size, fecha_subida) ==
    [title |-> title, base64 |-> base64, filename |-> filename, url |-> url,
     size |-> size, fecha_subida |-> fecha_subida]

Nueva(base64) == ClientImage(UNDEF, base64, UNDEF, UNDEF, NoNum, NoNum)

EquipoIds == {<<"PC01">>, <<"PC01", "-update">>, <<"uploads">>}

Body(equipo_id, estado, imagenes) ==
    [equipo_id |-> equipo_id, serial_number |-> <<"SN001">>,
     responsable |-> <<"Ana">>, cargo |-> <<"Tech">>, estado |-> estado,
     windows_update |-> <<"si">>, imagenes |-> imagenes]

\* a file of the local fallback storage, as saveImageLocally named it, and the
\* row of a record created while images were stored locally
LocalFile == <<"PC01", "/", "1", "-", "1", ".", "png">>

LegacyRow ==
    Row(1, Body(<<"LEG01">>, <<"operativo">>, <<>>),
        <<Descriptor(<<"Imagen ", "1">>, LocalFile, UploadsMarker \o LocalFile, 1, 0)>>,
        0)

RemoteUrl == getPublicUrl(LocalFile)

\* what a client sends back for an image it got from the list ...
Remota == ClientImage(<<"foto">>, UNDEF, RemoteUrl, RemoteUrl, 1, 1)

\* ... or builds itself: a remote filename alone, another url beside it
RemotaSola == ClientImage(UNDEF, UNDEF, RemoteUrl, UNDEF, NoNum, NoNum)

RemotaOtra ==
    ClientImage(<<"foto">>, UNDEF, RemoteUrl, getPublicUrl(<<"otra.png">>), 1, 1)

Local == ClientImage(UNDEF, UNDEF, LocalFile, UploadsMarker \o LocalFile, 1, 1)

\* a local image sent without a url
LocalSinUrl == ClientImage(UNDEF, UNDEF, LocalFile, UNDEF, 1, 1)

\* create requests: <<body, the indexes whose upload the storage service fails>>
CrearRequests ==
    {<<Body(<<"PC01">>, <<"operativo">>, imgs), {}>> :
        imgs \in {<<Nueva(PngUri)>>, <<Nueva(NoCommaUri)>>,
                  <<Nueva(SvgUri), Nueva(PngUri)>>,
                  <<Nueva(PngUri2), Nueva(PngUri)>>}}
    \cup {<<Body(<<"PC01">>, <<"operativo">>, <<Nueva(PngUri2), Nueva(PngUri)>>), {1}>>}
    \cup {<<Body(e, <<"operativo">>, <<Nueva(PngUri)>>), {}>> :
            e \in EquipoIds \ {<<"PC01">>}}
    \cup {<<[Body(<<"PC01">>, <<"operativo">>, <<Nueva(PngUri)>>) EXCEPT ![f] = UNDEF], {}>> :
            f \in RequiredFields}
    \cup {<<Body(<<"PC01">>, <<"roto">>, <<Nueva(PngUri)>>), {}>>}

Ids == 1..(MaxRows + 1)

\* update requests: <<id, body, failing upload indexes>>
ActualizarRequests ==
    {<<id, Body(<<"PC01">>, <<"operativo">>, imgs), {}>> :
        id \in Ids,
        imgs \in {<<Nueva(PngUri)>>, <<Remota>>, <<RemotaSola>>, <<RemotaOtra>>,
                  <<Local>>, <<Remota, Nueva(PngUri2)>>}}
    \cup {<<1, Body(<<"PC01">>, <<"operativo">>, <<LocalSinUrl>>), {}>>}

\* an image of a list response as the client sends it back: the same fields,
\* no base64
comoCliente(img) ==
    ClientImage(img.title, UNDEF, img.filename, img.url, img.size, img.fecha_subida)

devueltas(imagenes) == [k \in 1..Len(imagenes) |-> comoCliente(imagenes[k])]

\* the client sends a record of the last list response back, images unchanged
ActualizarListado(id) ==
    /\ res.op = "listar"
    /\ res.status = 200
    /\ \E par \in res.data : \E r \in tabla :
          /\ par[1] = id
          /\ r.id = id
          /\ Actualizar(id, Body(r.equipo_id, r.estado, devueltas(par[2])), {})

\* ------------------------------------------------------------------ spec
Init ==
    /\ phase = "boot"
    /\ dbInitialized = FALSE
    /\ tabla \in {{}, {LegacyRow}}
    /\ nextId = Cardinality(tabla) + 1
    /\ bucket = EmptyBucket
    /\ disk \in SUBSET {LocalFile}
    /\ now = 1
    /\ fix = FixIdle
    /\ req = Request("none", 0, <<>>, {})
    /\ res = [op |-> "none", status |-> 0, error |-> "", code |-> "",
              imagenes_guardadas |-> 0, data |-> <<>>]
    /\ served = 0
    /\ generated = [crear |-> {}, actualizar |-> {}]
    /\ hist = NoHist

Next ==
    \/ \E storeOk \in BOOLEAN : StartServer(storeOk)
    \/ Tick
    \/ \E r \in CrearRequests : Crear(r[1], r[2])
    \/ \E r \in ActualizarRequests : Actualizar(r[1], r[2], r[3])
    \/ \E id \in Ids : ActualizarListado(id)
    \/ \E id \in Ids, bad \in SUBSET disk : Eliminar(id, bad)
    \/ Listar
    \/ Estadisticas
    \/ Exportar
    \/ ImagenesStatus
    \/ FixLoad
    \/ \E writeOk \in BOOLEAN : FixStep(writeOk)
    \/ FixRespond

Spec == Init /\ [][Next]_vars

\* ----------------------------------------------------------- properties
\* the step is the handling of a request to op
Handled(op) == served' # served /\ req'.op = op

existeEquipo(body, t) == \E r \in t : r.equipo_id = body.equipo_id

\* C1: reconciliation is idempotent: a run that directly follows a complete
\* run (no other operation in between, every write of the first run
\* succeeded) updates zero records and leaves the image URLs as the first
\* run left them.
C1_Idempotent ==
    (res.op = "fix" /\ fix.pc = "idle" /\ hist.second)
        => /\ res.data.equipos_actualizados = 0
           /\ Urls(tabla) = hist.urls1

\* C2 as stated: a create whose equipo_id already exists always fails with
\* 400 and code 23505 and leaves the table unchanged.
C2_Original ==
    [][(Handled("crear") /\ existeEquipo(req'.body, tabla))
         => /\ res'.status = 400
            /\ res'.code = "23505"
            /\ tabla' = tabla]_vars

\* C2 amended: a create whose equipo_id already exists never changes the
\* table; it fails with 400 and code 23505 when it passes the required-field
\* check and the CHECK constraints (which are tested first).
C2_DuplicateKey ==
    [][(Handled("crear") /\ existeEquipo(req'.body, tabla))
         => /\ tabla' = tabla
            /\ res'.status = 400
            /\ (/\ \A f \in RequiredFields : Truthy(req'.body[f])
                /\ req'.body.estado \in Estados
                /\ req'.body.windows_update \in WindowsUpdates)
                 => res'.code = "23505"]_vars

\* C2 witness: a create of an existing equipo_id was answered 400 / 23505
\* after its image was uploaded
C2_Witness ==
    /\ req.op = "crear"
    /\ res.op = "crear"
    /\ res.status = 400
    /\ res.code = "23505"
    /\ existeEquipo(req.body, tabla)
    /\ DOMAIN bucket # {}

\* the storage key of image i uploaded under namespace ns at time ts
claveDe(imagenes, ns, i, ts) ==
    filePathOf(ns, ts, i,
               imageTypeOf(imagenes[i].base64, regexMatch(imagenes[i].base64)))

\* image i carries a data URI of the accepted shape
decodifica(imagenes, i) ==
    /\ Truthy(imagenes[i].base64)
    /\ includes(imagenes[i].base64, <<",">>)
    /\ regexMatch(imagenes[i].base64) # 0

\* ... and its upload is accepted: the service answers, the key is free
subeBien(imagenes, ns, i, ts, bk, netFail) ==
    /\ decodifica(imagenes, i)
    /\ i \notin netFail
    /\ claveDe(imagenes, ns, i, ts) \notin DOMAIN bk

\* C3: on a create that passes validation and the constraints, the images
\* whose decode or upload fails are dropped, the row is inserted (201) with
\* exactly the uploaded images in request order, and imagenes_guardadas
\* counts them.
C3_PartialFailure ==
    [][(/\ Handled("crear")
        /\ ~camposFaltantes(req'.body)
        /\ constraintError(req'.body, tabla) = "")
         => LET body == req'.body
                ok == {i \in 1..Len(body.imagenes) :
                          subeBien(body.imagenes, body.equipo_id, i, now, bucket,
                                   req'.env)}
                clave(i) == claveDe(body.imagenes, body.equipo_id, i, now)
                nuevo == tabla' \ tabla
            IN /\ res'.status = 201
               /\ res'.imagenes_guardadas = Cardinality(ok)
               /\ Cardinality(nuevo) = 1
               /\ \A r \in nuevo :
                    /\ r.equipo_id = body.equipo_id
                    /\ Len(r.imagenes) = Cardinality(ok)
                    /\ \A i \in ok : \E j \in 1..Len(r.imagenes) :
                         /\ r.imagenes[j].filename = clave(i)
                         /\ r.imagenes[j].url = getPublicUrl(clave(i))
                         /\ clave(i) \in DOMAIN bucket'
                    /\ \A i1, i2 \in ok : \A j1, j2 \in 1..Len(r.imagenes) :
                         (/\ i1 < i2
                          /\ r.imagenes[j1].filename = clave(i1)
                          /\ r.imagenes[j2].filename = clave(i2))
                             => j1 < j2]_vars

\* C3 witness: a create with one image that does not decode and one that
\* uploads was answered 201 with one image saved
C3_Witness ==
    /\ req.op = "crear"
    /\ req.body.imagenes = <<Nueva(SvgUri), Nueva(PngUri)>>
    /\ res.op = "crear"
    /\ res.status = 201
    /\ res.imagenes_guardadas = 1
    /\ \E r \in tabla : r.equipo_id = req.body.equipo_id /\ Len(r.imagenes) = 1

\* C4: a create that lacks a required field fails with the validation error
\* (400) and neither uploads an image nor inserts a row.
C4_Validation ==
    [][(Handled("crear") /\ \E f \in RequiredFields : req'.body[f] = UNDEF)
         => /\ res'.status = 400
            /\ res'.error = "Campos requeridos faltantes"
            /\ bucket' = bucket
            /\ tabla' = tabla]_vars

\* C4 witness: a create without windows_update and with one image was
\* answered with the validation error
C4_Witness ==
    /\ req.op = "crear"
    /\ req.body.windows_update = UNDEF
    /\ Len(req.body.imagenes) = 1
    /\ res.op = "crear"
    /\ res.status = 400
    /\ res.error = "Campos requeridos faltantes"

\* a filename that deleteImageLocally treats as a local file
esLocal(filename) == Truthy(filename) /\ ~startsWith(filename, HttpPrefix)

\* C5 as stated: after a successful delete every local image file of the
\* deleted record that existed is gone, and the object store is unchanged.

C6_NotFound ==
    [][(Handled("actualizar") /\ \A r \in tabla : r.id # req'.id)
         => /\ res'.status = 404
            /\ tabla' = tabla]_vars

\* C6 witness: an update with embedded image data of an id that matches no
\* row of a non-empty table was answered 404
C6_Witness ==
    /\ req.op = "actualizar"
    /\ res.op = "actualizar"
    /\ res.status = 404
    /\ \A r \in tabla : r.id # req.id
    /\ tabla # {}
    /\ tieneDataImage(req.body.imagenes[1])
    /\ DOMAIN bucket # {}

\* an image of an update that takes the remote branch of the loop
pasaSinDatos(imagen) ==
    /\ ~tieneDataImage(imagen)
    /\ Truthy(imagen.filename)
    /\ startsWith(imagen.filename, HttpPrefix)

\* C7 as stated: on update an image without new data whose filename starts
\* with http is stored with the filename, url, size and upload time sent
\* (read for the images sent with all four).

C8_NoCollision == generated.crear \cap generated.actualizar = {}

\* the images of request r that its handler hands to saveImageToSupabase,
\* and the namespace it uploads them under
subidasDe(r) ==
    IF r.op = "crear" /\ ~camposFaltantes(r.body)
    THEN [imagenes |-> r.body.imagenes, ns |-> r.body.equipo_id,
          con |-> {i \in 1..Len(r.body.imagenes) : tieneBase64(r.body.imagenes[i])}]
    ELSE IF r.op = "actualizar"
    THEN [imagenes |-> r.body.imagenes, ns |-> r.body.equipo_id \o UpdateSuffix,
          con |-> {i \in 1..Len(r.body.imagenes) : tieneDataImage(r.body.imagenes[i])}]
    ELSE [imagenes |-> <<>>, ns |-> <<>>, con |-> {}]

\* C9: an object of the bucket is never replaced or removed; an upload to a
\* key that is taken fails, that image alone is dropped, and the other images
\* of the request are uploaded.
C9_NoOverwrite ==
    [][/\ \A k \in DOMAIN bucket : k \in DOMAIN bucket' /\ bucket'[k] = bucket[k]
       /\ served' # served =>
            LET s == subidasDe(req')
                clave(i) == claveDe(s.imagenes, s.ns, i, now)
            IN \A i \in s.con :
                 /\ (decodifica(s.imagenes, i) /\ clave(i) \in DOMAIN bucket)
                      => \A r \in tabla' \ tabla : \A j \in 1..Len(r.imagenes) :
                             r.imagenes[j].filename # clave(i)
                 /\ subeBien(s.imagenes, s.ns, i, now, bucket, req'.env)
                      => /\ clave(i) \in DOMAIN bucket'
                         /\ bucket'[clave(i)] =
                                bufferFrom(imageDataOf(s.imagenes[i].base64,
                                                       regexMatch(s.imagenes[i].base64)))
                         /\ res'.status \in {200, 201}
                              => \E r \in tabla' \ tabla : \E j \in 1..Len(r.imagenes) :
                                     r.imagenes[j].filename = clave(i)]_vars

\* C9 witness: a create of two images met a taken key for its first image,
\* the object there kept its bytes, and the second image was uploaded
C9_Witness ==
    /\ req.op = "crear"
    /\ req.body.imagenes = <<Nueva(PngUri2), Nueva(PngUri)>>
    /\ req.env = {}
    /\ res.op = "crear"
    /\ res.status = 201
    /\ res.imagenes_guardadas = 1
    /\ now = 1
    /\ filePathOf(req.body.equipo_id, 1, 1, <<"png">>) \in DOMAIN bucket
    /\ bucket[filePathOf(req.body.equipo_id, 1, 1, <<"png">>)] = <<65>>
    /\ filePathOf(req.body.equipo_id, 1, 2, <<"png">>) \in DOMAIN bucket

\* C10: no request is handled while the readiness flag is false (one that
\* were would be answered 500 and touch neither the table nor the storage);
\* the flag changes once, from false to true, at start-up before the server
\* listens, and is never reset.
C10_Readiness ==
    /\ [](served > 0 => dbInitialized)
    /\ [](phase = "listening" => dbInitialized)
    /\ [][dbInitialized' # dbInitialized
            => ~dbInitialized /\ dbInitialized' /\ phase = "boot" /\ served = 0]_vars
    /\ [][(~dbInitialized /\ served' # served)
            => /\ res'.status = 500
               /\ tabla' = tabla
               /\ bucket' = bucket
               /\ disk' = disk]_vars

\* C10 witness: the server listens with the flag set and has answered a
\* request with 200
C10_Witness ==
    /\ phase = "listening"
    /\ dbInitialized
    /\ served > 0
    /\ res.status = 200

\* the position of ";base64" in a string of the shape
\* data:image/<subtype>;base64,<payload> (a subtype of one or more tokens,
\* none of them "/" or ","), 0 for a string of any other shape
formaDe(s) ==
    IF /\ Len(s) >= 5
       /\ s[1] = "data:image"
       /\ s[2] = "/"
       /\ \E j \in 4..(Len(s) - 1) :
            /\ s[j] = ";base64"
            /\ s[j + 1] = ","
            /\ \A k \in 3..(j - 1) : s[k] \notin {";base64", ",", "/"}
    THEN CHOOSE j \in 4..(Len(s) - 1) :
            /\ s[j] = ";base64"
            /\ s[j + 1] = ","
            /\ \A k \in 3..(j - 1) : s[k] \notin {";base64", ",", "/"}
    ELSE 0

\* C11: in a create that is answered 201, an image of the shape
\* data:image/<subtype>;base64,<payload> whose upload the storage accepts is
\* stored under a key ending in <subtype> with the decoded payload as its
\* bytes, and an image of any other shape is not uploaded.
C11_Codec ==
    [][(Handled("crear") /\ res'.status = 201)
         => \A i \in 1..Len(req'.body.imagenes) :
              LET b == req'.body.imagenes[i].base64
                  j == formaDe(b)
                  clave == filePathOf(req'.body.equipo_id, now, i, SubSeq(b, 3, j - 1))
              IN IF j # 0
                 THEN (i \notin req'.env /\ clave \notin DOMAIN bucket)
                        => /\ clave \in DOMAIN bucket'
                           /\ bucket'[clave] = bufferFrom(SubSeq(b, j + 2, Len(b)))
                 ELSE \A k \in DOMAIN bucket' \ DOMAIN bucket :
                        \A t \in {<<"png">>, <<"jpeg">>, <<>>} :
                            k # filePathOf(req'.body.equipo_id, now, i, t)]_vars

\* the rows of the run in course that need a correction, as loaded
sucios == {k \in 1..Len(fix.computadores) :
              necesitaActualizacion(fix.computadores[k].imagenes)}

\* C12: a write the store refuses does not end the run: the loop goes on to
\* the next row, a row whose write is accepted holds its corrected images,
\* and when the run answers (200) every loaded row that needed a correction
\* had its write attempted, equipos_actualizados is the number of accepted
\* writes and total_imagenes_procesadas the number of images loaded.
C12_SkipFailed ==
    /\ [][(fix.pc = "loop" /\ fix.i <= Len(fix.computadores) /\ fix' # fix)
            => LET computador == fix.computadores[fix.i]
               IN /\ fix'.pc = "loop"
                  /\ fix'.i = fix.i + 1
                  /\ (fix.i \in sucios /\ computador.id \in fix'.escritos) =>
                        \A r \in tabla' : r.id = computador.id =>
                            r.imagenes = imagenesCorregidas(computador.imagenes, now)
                  /\ (fix.i \in sucios /\ computador.id \notin fix'.escritos) =>
                        tabla' = tabla]_vars
    /\ [][(fix.pc = "loop" /\ fix'.pc = "idle")
            => /\ res'.op = "fix"
               /\ res'.status = 200
               /\ \A k \in sucios :
                    fix.computadores[k].id \in fix.escritos \cup fix.fallidos
               /\ res'.data.equipos_actualizados = Cardinality(fix.escritos)
               /\ res'.data.total_imagenes_procesadas =
                      SumImagenes(Range(fix.computadores))]_vars

\* C12 witness: a run over two rows that needed a correction has answered
\* with one row updated; the row whose write was refused keeps its old url
\* and the other row was written
C12_Witness ==
    /\ res.op = "fix"
    /\ res.status = 200
    /\ fix.pc = "idle"
    /\ res.data.equipos_actualizados = 1
    /\ res.data.total_imagenes_procesadas = 2
    /\ \E r \in tabla : /\ Len(r.imagenes) = 1
                        /\ r.imagenes[1].url = UploadsMarker \o LocalFile
                        /\ r.imagenes[1].corregida_el = NoNum
    /\ \E r \in tabla : /\ Len(r.imagenes) = 1
                        /\ r.imagenes[1].corregida_el # NoNum

\* the step is an iteration of the reconciliation loop
EsFixStep == fix.pc = "loop" /\ fix.i <= Len(fix.computadores) /\ fix' # fix

\* the columns of a row other than imagenes
sinImagenes(r) == [r EXCEPT !.imagenes = <<>>]

\* C13 as stated: an iteration of reconciliation leaves the other rows and
\* the non-image columns alone, writes nothing for a row without a marked
\* image, keeps the length and order of the images it loaded, changes only
\* url, url_anterior and corregida_el of an image, and passes an image with
\* a remote-hosted url (one that starts with http) through unchanged.
C13_Original ==
    [][EsFixStep
         => LET computador == fix.computadores[fix.i]
            IN /\ \A r \in tabla : r.id # computador.id => r \in tabla'
               /\ {sinImagenes(r) : r \in tabla'} = {sinImagenes(r) : r \in tabla}
               /\ ~necesitaActualizacion(computador.imagenes) => tabla' = tabla
               /\ tabla' # tabla =>
                    \A r \in tabla' : r.id = computador.id =>
                        /\ Len(r.imagenes) = Len(computador.imagenes)
                        /\ \A k \in 1..Len(r.imagenes) :
                             /\ [r.imagenes[k] EXCEPT !.url = <<>>,
                                                      !.url_anterior = <<>>,
                                                      !.corregida_el = 0]
                                  = [computador.imagenes[k] EXCEPT !.url = <<>>,
                                                                   !.url_anterior = <<>>,
                                                                   !.corregida_el = 0]
                             /\ startsWith(computador.imagenes[k].url, HttpPrefix)
                                  => r.imagenes[k] = computador.imagenes[k]]_vars

\* C13, the part that holds: the same with the last conjunct read for the
\* images whose url does not contain the marker '/uploads/'.
C13_Frame ==
    [][EsFixStep
         => LET computador == fix.computadores[fix.i]
            IN /\ \A r \in tabla : r.id # computador.id => r \in tabla'
               /\ {sinImagenes(r) : r \in tabla'} = {sinImagenes(r) : r \in tabla}
               /\ ~necesitaActualizacion(computador.imagenes) => tabla' = tabla
               /\ tabla' # tabla =>
                    \A r \in tabla' : r.id = computador.id =>
                        /\ Len(r.imagenes) = Len(computador.imagenes)
                        /\ \A k \in 1..Len(r.imagenes) :
                             /\ [r.imagenes[k] EXCEPT !.url = <<>>,
                                                      !.url_anterior = <<>>,
                                                      !.corregida_el = 0]
                                  = [computador.imagenes[k] EXCEPT !.url = <<>>,
                                                                   !.url_anterior = <<>>,
                                                                   !.corregida_el = 0]
                             /\ ~includes(computador.imagenes[k].url, UploadsMarker)
                                  => r.imagenes[k] = computador.imagenes[k]]_vars

\* the images of the table, as <<row id, index>>
todasLasImagenes ==
    UNION {{<<r.id, i>> : i \in 1..Len(r.imagenes)} : r \in tabla}

imagenEn(t, par) == (CHOOSE r \in t : r.id = par[1]).imagenes[par[2]]

\* C14: the status operation answers 200 with three counters that add up to
\* total_imagenes, which is the number of images of the table; a counter is
\* positive exactly when an image of its class exists (remote: url contains
\* supabase.co; broken: otherwise url contains /uploads/; local: the rest);
\* necesita_fix says whether the broken counter is positive; and the table,
\* the bucket and the local files are left as they were.
C14_Status ==
    [][(Handled("status") /\ dbInitialized)
         => LET d == res'.data
                esRemota(img) == Truthy(img.url) /\ includes(img.url, SupabaseMarker)
                esRota(img) == /\ ~esRemota(img)
                               /\ Truthy(img.url)
                               /\ includes(img.url, UploadsMarker)
                n(p) == Cardinality({par \in todasLasImagenes : p[par]})
                remotas == [par \in todasLasImagenes |-> esRemota(imagenEn(tabla, par))]
                rotas == [par \in todasLasImagenes |-> esRota(imagenEn(tabla, par))]
            IN /\ res'.status = 200
               /\ d.total_equipos = Cardinality(tabla)
               /\ d.total_imagenes = Cardinality(todasLasImagenes)
               /\ d.imagenes_supabase = n(remotas)
               /\ d.imagenes_rotas = n(rotas)
               /\ d.imagenes_locales = d.total_imagenes - n(remotas) - n(rotas)
               /\ d.imagenes_supabase + d.imagenes_rotas + d.imagenes_locales
                    = d.total_imagenes
               /\ d.necesita_fix = (d.imagenes_rotas > 0)
               /\ tabla' = tabla
               /\ bucket' = bucket
               /\ disk' = disk]_vars

\* C14 witness: the status operation has answered for a table with a broken
\* image and an image of another class
C14_Witness ==
    /\ req.op = "status"
    /\ res.op = "status"
    /\ res.status = 200
    /\ res.data.imagenes_rotas = 1
    /\ res.data.imagenes_supabase + res.data.imagenes_locales = 1
    /\ res.data.total_imagenes = 2

\* the status operation has counted an image in the class local
C14_WitnessLocal ==
    /\ req.op = "status"
    /\ res.op = "status"
    /\ res.data.imagenes_locales = 1

\* C15: an iteration of reconciliation for a row whose image sequence was
\* replaced after reconciliation loaded it leaves the sequence of the table
\* as the update committed it, and an iteration for a row that was deleted
\* after the load does not bring the row back.
C15_NoStaleWrite ==
    [][EsFixStep
         => LET computador == fix.computadores[fix.i]
            IN /\ \A r \in tabla :
                    (r.id = computador.id /\ r.imagenes # computador.imagenes)
                        => \A r2 \in tabla' : r2.id = r.id => r2.imagenes = r.imagenes
               /\ (\A r \in tabla : r.id # computador.id)
                    => \A r2 \in tabla' : r2.id # computador.id]_vars

\* the update sends back, unchanged, what a list returns for row r now
esIdaYVuelta(r) ==
    /\ Handled("actualizar")
    /\ res'.status = 200
    /\ r.id = req'.id
    /\ req'.body.imagenes = devueltas(imagenesProc(r.imagenes, disk))

\* the urls of a sequence of images, in order
urlsDe(imagenes) == [k \in 1..Len(imagenes) |-> imagenes[k].url]

\* a stored image that the list treats as a local file
esLocalEnLista(imagen) ==
    /\ ~(Truthy(imagen.url) /\ includes(imagen.url, SupabaseMarker))
    /\ Truthy(imagen.filename)
    /\ ~startsWith(imagen.filename, HttpPrefix)

\* C16 as stated: after an update that sends back the images a list returns
\* for the record, the record holds as many images as before, in the same
\* order and with the same urls.
C16_Original ==
    [][\A r \in tabla : esIdaYVuelta(r) =>
          \A r2 \in tabla' : r2.id = r.id => urlsDe(r2.imagenes) = urlsDe(r.imagenes)]_vars

\* C16 amended: after such an update the record holds the images the list
\* returned, in the same order and with the same urls; these are all the
\* images of the record, with their urls, when the file of every image that
\* the list treats as local is on local storage (a local image whose file is
\* missing is left out of the list, and so out of the record).
C16_RoundTrip ==
    [][\A r \in tabla : esIdaYVuelta(r) =>
          \A r2 \in tabla' : r2.id = r.id =>
              /\ urlsDe(r2.imagenes) = urlsDe(imagenesProc(r.imagenes, disk))
              /\ (\A k \in 1..Len(r.imagenes) :
                     esLocalEnLista(r.imagenes[k]) => r.imagenes[k].filename \in disk)
                   => urlsDe(r2.imagenes) = urlsDe(r.imagenes)]_vars

\* C16 witness: the record created with one uploaded image was listed and
\* sent back, and holds the image with its url
C16_Witness ==
    /\ req.op = "actualizar"
    /\ res.op = "actualizar"
    /\ res.status = 200
    /\ req.body.imagenes =
           <<ClientImage(<<"Imagen ", "1">>, UNDEF, RemoteUrl, RemoteUrl, 1, 1)>>
    /\ \E r \in tabla : /\ r.id = req.id
                        /\ urlsDe(r.imagenes) = <<RemoteUrl>>

\* C17: a delete answered 200 leaves on local storage every file that a
\* locally-hosted image (local filename, url not a remote one) of a remaining
\* record names (read for the files that the deleted record named in an
\* image that is not a remote one either).
C17_SharedFile ==
    [][(Handled("eliminar") /\ res'.status = 200)
         => \A r \in tabla' : \A k \in 1..Len(r.imagenes) :
              LET f == r.imagenes[k].filename
              IN (/\ esLocal(f)
                  /\ ~includes(r.imagenes[k].url, SupabaseMarker)
                  /\ f \in disk
                  /\ \A d \in tabla \ tabla' : \A j \in 1..Len(d.imagenes) :
                       d.imagenes[j].filename = f
                           => ~includes(d.imagenes[j].url, SupabaseMarker))
                   => f \in disk']_vars

\* C18: the images that the status operation classifies as broken are the
\* images that a reconciliation run on the same table rewrites, and
\* necesita_fix is true exactly when that run would rewrite an image.
C18_Agreement ==
    [][(Handled("status") /\ dbInitialized)
         => /\ \A par \in todasLasImagenes :
                 tipoDe(imagenEn(tabla, par)) = "koyeb_rota"
                     <=> necesitaCorreccion(imagenEn(tabla, par))
            /\ res'.data.necesita_fix
                 <=> \E r \in tabla : necesitaActualizacion(r.imagenes)]_vars

====
